---- MODULE Spec2Model ----
(***************************************************************************)
(* Christmas Sunday Finder (basic.js): the year loop of findXmasSunday,    *)
(* the statistics of ChristmasSundayFinder.calculateStatistics, and the    *)
(* page's handlers (the input and keypress listeners, findXmasSundays,     *)
(* displayResults, clearResults) with their setTimeout callbacks.          *)
(***************************************************************************)
EXTENDS Integers, Sequences, FiniteSets, TLC

VARIABLES
    \* ---- one call of findXmasSunday(startYear, endYear) ----
    fStart,        \* argument startYear
    fEnd,          \* argument endYear
    tz,            \* the host's local time zone offset, in hours east of UTC
    year,          \* loop variable
    sundayYears,   \* the list being built
    fpc,           \* "idle" | "loop" | "returned" | "threw"
    \* ---- the environment ----
    clockYear,     \* new Date().getFullYear() as the host's clock has it now
    \* ---- the page (DOM) ----
    value,         \* value of the #startYear and #endYear inputs (text)
    borderColor,   \* style.borderColor of the two inputs
    loadingDisplay,  \* #loading style.display
    resultsDisplay,  \* #resultsSection style.display
    yearsGrid,     \* textContent of the .year-item children of #yearsGrid
    statText,      \* #resultsCount, #totalYears, #frequency, #nextSunday, #gap
    snowflakes,    \* number of .snowflake children of #snowContainer
    listeners,     \* listeners registered on the two inputs, by event type
    lastAlert,     \* message of the most recent alert(), "" when none yet
    timers,        \* pending setTimeout callbacks, in scheduling order
    \* ---- ChristmasSundayFinder ----
    currentYear,   \* this.currentYear of the finder constructed last
    lastStats,     \* the last calculateStatistics call: arguments and result
    \* ---- history (not program state) ----
    started,       \* clicks and key presses that started a search so far
    latest,        \* the most recently started search
    lastFind,      \* the page's most recent findXmasSunday invocation
    statCalls,     \* calculateStatistics calls made by the page
    cleared        \* set by clearResults until the next search starts

findVars == <<fStart, fEnd, tz, year, sundayYears, fpc>>
pageVars == <<value, borderColor, loadingDisplay, resultsDisplay, yearsGrid,
              statText, snowflakes, listeners, lastAlert, timers>>
histVars == <<started, latest, lastFind, statCalls, cleared>>
vars == <<fStart, fEnd, tz, year, sundayYears, fpc, clockYear, value,
          borderColor, loadingDisplay, resultsDisplay, yearsGrid, statText,
          snowflakes, listeners, lastAlert, timers, currentYear, lastStats,
          started, latest, lastFind, statCalls, cleared>>

-----------------------------------------------------------------------------
(* Bounds of the model *)

\* longest range (endYear - startYear) a findXmasSunday call is explored with
MaxSpan == 26
\* how far below startYear an inverted range's endYear is explored
MaxBack == 2
\* the years the host's clock shows while the page is used
MinClockYear == 2005
MaxClockYear == 2006
\* clicks and key presses by which the user starts a search
MaxSearches == 2
\* calculateStatistics is explored on lists of years this far around the
\* clock's years
StatMargin == 2

(* Program constants *)

\* findXmasSundays: if (startYear < 1900 || endYear > 3000)
YearLo == 1900
YearHi == 3000
\* initializeSnow: for (let i = 0; i < 50; i++)
SnowPerInit == 50
\* findXmasSundays: setTimeout(..., 500)
SearchDelay == 500
\* displayResults: setTimeout(..., index * 50)
YearStep == 50

\* local time zone offsets, hours east of UTC (UTC-12 .. UTC+14 exist)
TimeZones == {-12, 0, 14}

-----------------------------------------------------------------------------
(* ECMAScript Date: new Date(year, 11, 25).getDay()                        *)

\* floor division (\div of Integers floors, also for negative dividends)
Floor(a, b) == a \div b

\* ECMAScript DaysInYear / InLeapYear
InLeapYear(y) ==
    IF y % 4 # 0 THEN 0
    ELSE IF y % 100 # 0 THEN 1
    ELSE IF y % 400 # 0 THEN 0
    ELSE 1

\* ECMAScript DayFromYear(y): day number of January 1 of y, from 1970-01-01
DayFromYear(y) ==
    365 * (y - 1970) + Floor(y - 1969, 4) - Floor(y - 1901, 100)
        + Floor(y - 1601, 400)

\* ECMAScript MakeDay(year, 11, 25): December 1 is day 334 (+1 in a leap
\* year) of its year, and the 25th is 24 days later
MakeDayDec25(y) == DayFromYear(y) + 334 + InLeapYear(y) + 24

\* new Date(year, 11, 25): the time value (hours since the epoch, UTC) of
\* local midnight of December 25: UTC(MakeDate(day, 0))
NewDateDec25(y, zone) == MakeDayDec25(y) * 24 - zone

\* getUTCDay in place of getDay: the weekday of the UTC date
GetDay_utc(t, zone) == (Floor(t, 24) + 4) % 7

\* Date.prototype.getDay: WeekDay(LocalTime(t)) = (Day(t_local) + 4) mod 7
GetDay(t, zone) == (Floor(t + zone, 24) + 4) % 7

\* line 22-23: new Date(year, 11, 25).getDay() === 0
IsXmasSunday(y, zone) == GetDay(NewDateDec25(y, zone), zone) = 0

-----------------------------------------------------------------------------
(* JavaScript values: numbers, strings, undefined and NaN, and the string  *)
(* x.toFixed(1) makes, kept as the number of tenths it prints              *)

Num(n) == [t |-> "number", n |-> n, s |-> ""]
Str(s) == [t |-> "string", n |-> 0, s |-> s]
Fixed(tenths) == [t |-> "fixed", n |-> tenths, s |-> ""]
Undefined == [t |-> "undefined", n |-> 0, s |-> ""]
NaN == [t |-> "NaN", n |-> 0, s |-> ""]

\* ToBoolean(v) = false: undefined, NaN, 0 and the empty string
Falsy(v) ==
    \/ v.t = "undefined"
    \/ v.t = "NaN"
    \/ (v.t = "number" /\ v.n = 0)
    \/ (v.t = "string" /\ v.s = "")

\* a || b
JsOr(a, b) == IF Falsy(a) THEN b ELSE a

\* (num / den).toFixed(1) for num >= 0, den > 0: the integer n with n / 10
\* closest to the quotient, the larger n on a tie. The quotient is taken
\* exactly; the double the code divides into differs from it by less than
\* the distance to any tie, and a tie itself (a quotient k/4 in lowest
\* terms) is a double, for every divisor below 20
ToFixed1(num, den) == Fixed(Floor(20 * num + den, 2 * den))

(* Texts are tuples of one-character strings *)

Digits == <<"0", "1", "2", "3", "4", "5", "6", "7", "8", "9">>
IsDigit(c) == \E d \in 1..10 : Digits[d] = c
DigitVal(c) == (CHOOSE d \in 1..10 : Digits[d] = c) - 1

RECURSIVE SkipWhite(_)
SkipWhite(text) ==
    IF text # <<>> /\ Head(text) = " " THEN SkipWhite(Tail(text)) ELSE text

\* the value of the longest prefix of decimal digits, after acc
RECURSIVE DigitsValue(_, _)
DigitsValue(text, acc) ==
    IF text # <<>> /\ IsDigit(Head(text))
      THEN DigitsValue(Tail(text), 10 * acc + DigitVal(Head(text)))
      ELSE acc

\* parseInt(text): leading white space is skipped, then an optional sign,
\* then the longest run of digits; whatever follows is ignored; NaN when
\* there is no digit
ParseInt(text) ==
    LET t1 == SkipWhite(text)
        signed == t1 # <<>> /\ Head(t1) \in {"+", "-"}
        t2 == IF signed THEN Tail(t1) ELSE t1
        sign == IF signed /\ Head(t1) = "-" THEN -1 ELSE 1
    IN IF t2 = <<>> \/ ~IsDigit(Head(t2)) THEN NaN
       ELSE Num(sign * DigitsValue(t2, 0))

-----------------------------------------------------------------------------
(* ChristmasSundayFinder.calculateStatistics(years, startYear, endYear)    *)

\* years.find((year) => year >= this.currentYear)
RECURSIVE Find(_, _)
Find(years, ref) ==
    IF years = <<>> THEN Undefined
    ELSE IF Head(years) >= ref THEN Num(Head(years))
    ELSE Find(Tail(years), ref)

\* for (let i = 1; i < years.length; i++) gaps.push(years[i] - years[i - 1])
Gaps(years) ==
    IF Len(years) < 2 THEN <<>>
    ELSE [i \in 1..(Len(years) - 1) |-> years[i + 1] - years[i]]

\* gaps.reduce((a, b) => a + b, 0)
RECURSIVE Reduce(_, _)
Reduce(gaps, acc) ==
    IF gaps = <<>> THEN acc ELSE Reduce(Tail(gaps), acc + Head(gaps))

\* the mean taken over the number of years, not the number of gaps
AvgGap_overCount(gaps) ==
    IF Len(gaps) > 0 THEN ToFixed1(Reduce(gaps, 0), Len(gaps) + 1)
    ELSE Str("-")

\* lines 105-108
AvgGap(gaps) ==
    IF Len(gaps) > 0 THEN ToFixed1(Reduce(gaps, 0), Len(gaps)) ELSE Str("-")

\* lines 97-98
NextSunday(years, ref) == JsOr(Find(years, ref), Str("None in range"))

\* the range's length taken as endYear - startYear, without the + 1
Frequency_noPlusOne(years, startYear, endYear) ==
    IF endYear = startYear THEN NaN
    ELSE ToFixed1(Len(years) * 100, endYear - startYear)

\* lines 93-94, for startYear <= endYear
Frequency(years, startYear, endYear) ==
    ToFixed1(Len(years) * 100, endYear - startYear + 1)

\* the returned object, lines 110-115
CalculateStatistics(years, startYear, endYear, thisYear) ==
    [total |-> Len(years),
     frequency |-> Frequency(years, startYear, endYear),
     next |-> NextSunday(years, thisYear),
     gap |-> AvgGap(Gaps(years))]

\* a call as lastStats keeps it: the arguments, the local gaps, the result
StatsCall(years, startYear, endYear, thisYear) ==
    [called |-> TRUE, years |-> years, startYear |-> startYear,
     endYear |-> endYear, thisYear |-> thisYear, gaps |-> Gaps(years),
     result |-> CalculateStatistics(years, startYear, endYear, thisYear)]

NoStatsCall ==
    [called |-> FALSE, years |-> <<>>, startYear |-> 0, endYear |-> 0,
     thisYear |-> 0, gaps |-> <<>>,
     result |-> [total |-> 0, frequency |-> Undefined, next |-> Undefined,
                 gap |-> Undefined]]

-----------------------------------------------------------------------------
(* findXmasSunday(startYear, endYear) *)

\* lines 22-25: the loop body
PushIfSunday(list, y, zone) ==
    IF IsXmasSunday(y, zone) THEN Append(list, y) ELSE list

\* the list the loop builds over y = lo, ..., hi: the pushes of the lower
\* half of the range followed by those of the upper half (halving keeps the
\* evaluation shallow; SpecFind runs the loop itself, step by step)
RECURSIVE FindLoop(_, _, _)
FindLoop(lo, hi, zone) ==
    IF lo > hi THEN <<>>
    ELSE IF lo = hi THEN PushIfSunday(<<>>, lo, zone)
    ELSE LET mid == (lo + hi) \div 2
         IN FindLoop(lo, mid, zone) \o FindLoop(mid + 1, hi, zone)

\* the whole call, as the page's timer callback makes it
FindXmasSunday(startYear, endYear, zone) == FindLoop(startYear, endYear, zone)

\* README, Algorithm 1: datetime.date(year, 12, 25).weekday() == 6, with
\* CPython's proleptic ordinal (days before the year, days before December
\* and the day) and weekday() = (ordinal + 6) % 7, Monday = 0
PyWeekdayDec25(y) ==
    LET y1 == y - 1
        ordinal == y1 * 365 + Floor(y1, 4) - Floor(y1, 100) + Floor(y1, 400)
                     + 334 + InLeapYear(y) + 25
    IN (ordinal + 6) % 7

RECURSIVE PyLoop(_, _, _)
PyLoop(y, endYear, list) ==
    IF y <= endYear
      THEN PyLoop(y + 1, endYear,
                  IF PyWeekdayDec25(y) = 6 THEN Append(list, y) ELSE list)
      ELSE list

find_xmas_sunday_basic(start_year, end_year) ==
    PyLoop(start_year, end_year, <<>>)

-----------------------------------------------------------------------------
(* The page *)

Fields == {"startYear", "endYear"}

Empty == <<>>

\* validateInputs(): the border colour it gives both inputs
ValidateInputs(val) ==
    LET startValue == ParseInt(val["startYear"])
        endValue == ParseInt(val["endYear"])
        bad == /\ ~Falsy(startValue)
               /\ ~Falsy(endValue)
               /\ startValue.n > endValue.n
    IN [f \in Fields |-> IF bad THEN "red" ELSE "var(--primary-green)"]

\* new ChristmasSundayFinder(): the clock is read, initializeSnow appends
\* 50 snowflakes, setupEventListeners adds an input and a keypress listener
\* to each input, validateInputs colours the borders
NewFinder ==
    /\ currentYear' = clockYear
    /\ snowflakes' = snowflakes + SnowPerInit
    /\ listeners' = [f \in Fields |->
                       [input |-> listeners[f].input + 1,
                        keypress |-> listeners[f].keypress + 1]]
    /\ borderColor' = ValidateInputs(value)

NoSearch == [id |-> 0, startYear |-> 0, endYear |-> 0]
NoFind ==
    [called |-> FALSE, startYear |-> 0, endYear |-> 0, startText |-> Empty,
     endText |-> Empty]
NoStatText ==
    [resultsCount |-> Undefined, totalYears |-> Undefined,
     frequency |-> Undefined, nextSunday |-> Undefined, gap |-> Undefined]

\* the page once DOMContentLoaded has run new ChristmasSundayFinder()
PageInit ==
    /\ value = [f \in Fields |-> Empty]
    /\ borderColor = ValidateInputs([f \in Fields |-> Empty])
    /\ loadingDisplay = ""
    /\ resultsDisplay = ""
    /\ yearsGrid = <<>>
    /\ statText = NoStatText
    /\ snowflakes = SnowPerInit
    /\ listeners = [f \in Fields |-> [input |-> 1, keypress |-> 1]]
    /\ lastAlert = ""
    /\ timers = <<>>
    /\ currentYear = clockYear
    /\ started = 0
    /\ latest = NoSearch
    /\ lastFind = NoFind
    /\ statCalls = {}
    /\ cleared = FALSE

NoFindCall ==
    /\ fStart = 0
    /\ fEnd = 0
    /\ year = 0
    /\ sundayYears = <<>>
    /\ fpc = "idle"

-----------------------------------------------------------------------------
(* SpecFind: one call of findXmasSunday, one loop iteration per step *)

FindInit ==
    /\ fStart \in YearLo..YearHi
    /\ fEnd \in (fStart - MaxBack)..(fStart + MaxSpan)
    /\ fEnd <= YearHi
    /\ tz \in TimeZones
    /\ year = fStart
    /\ sundayYears = <<>>
    /\ fpc = "loop"
    /\ clockYear = MinClockYear
    /\ PageInit
    /\ lastStats = NoStatsCall

\* the loop running one year too far (year <= endYear + 1)
FindLoopStep_offByOne ==
    /\ fpc = "loop"
    /\ year <= fEnd + 1
    /\ sundayYears' = PushIfSunday(sundayYears, year, tz)
    /\ year' = year + 1
    /\ UNCHANGED <<fStart, fEnd, tz, fpc, clockYear, pageVars, currentYear,
                   lastStats, histVars>>

\* for (let year = startYear; year <= endYear; year++) { if (...) push }
FindLoopStep ==
    /\ fpc = "loop"
    /\ year <= fEnd
    /\ sundayYears' = PushIfSunday(sundayYears, year, tz)
    /\ year' = year + 1
    /\ UNCHANGED <<fStart, fEnd, tz, fpc, clockYear, pageVars, currentYear,
                   lastStats, histVars>>

\* loop exit: return sundayYears
FindReturn ==
    /\ fpc = "loop"
    /\ year > fEnd
    /\ fpc' = "returned"
    /\ UNCHANGED <<fStart, fEnd, tz, year, sundayYears, clockYear, pageVars,
                   currentYear, lastStats, histVars>>

FindNext == FindLoopStep \/ FindReturn

SpecFind == FindInit /\ [][FindNext]_vars

-----------------------------------------------------------------------------
(* SpecStats: finders are constructed while the clock runs, and           *)
(* calculateStatistics is called on an ascending list of years             *)

StatYears == (MinClockYear - StatMargin)..(MaxClockYear + StatMargin)

\* the years of a set, ascending
RECURSIVE Ascending(_)
Ascending(S) ==
    IF S = {} THEN <<>>
    ELSE LET m == CHOOSE x \in S : \A z \in S : x <= z
         IN <<m>> \o Ascending(S \ {m})

StatsInit ==
    /\ NoFindCall
    /\ tz \in TimeZones
    /\ clockYear \in MinClockYear..MaxClockYear
    /\ PageInit
    /\ \E startYear \in StatYears, endYear \in StatYears :
         /\ startYear <= endYear
         /\ \E S \in SUBSET (startYear..endYear) :
              lastStats = [NoStatsCall EXCEPT !.years = Ascending(S),
                                             !.startYear = startYear,
                                             !.endYear = endYear]

\* the year changes on the host's clock
ClockTick ==
    /\ clockYear < MaxClockYear
    /\ clockYear' = clockYear + 1
    /\ UNCHANGED <<findVars, value, borderColor, loadingDisplay,
                   resultsDisplay, yearsGrid, statText, snowflakes, listeners,
                   lastAlert, timers, currentYear, lastStats, histVars>>

\* const finder = new ChristmasSundayFinder()
StatsNewFinder ==
    /\ snowflakes < SnowPerInit * (MaxSearches + 1)
    /\ NewFinder
    /\ UNCHANGED <<findVars, clockYear, value, loadingDisplay, resultsDisplay,
                   yearsGrid, statText, lastAlert, timers, lastStats,
                   histVars>>

\* finder.calculateStatistics(years, startYear, endYear), on the arguments
\* the initial state drew
StatsCalculate ==
    /\ ~lastStats.called
    /\ lastStats' = StatsCall(lastStats.years, lastStats.startYear,
                              lastStats.endYear, currentYear)
    /\ UNCHANGED <<findVars, clockYear, pageVars, currentYear, histVars>>

StatsNext == ClockTick \/ StatsNewFinder \/ StatsCalculate

SpecStats == StatsInit /\ [][StatsNext]_vars

-----------------------------------------------------------------------------
(* Spec: the page in use. A timer's delay is the time left before it is   *)
(* due; due timers run in the order they were scheduled, and the user acts *)
(* at the instants at which a timer is scheduled or due.                   *)

\* what the user types into the start-year and the end-year input
TypedTexts(f) ==
    IF f = "startYear"
      THEN { Empty,
             <<"1", "8", "9", "9">>,
             <<"2", "0", "0", "0">>,
             <<"2", "0", "1", "1", ".", "5">> }
      ELSE { Empty,
             <<"2", "0", "0", "0">>,
             <<"2", "0", "1", "1", ".", "5">>,
             <<"3", "0", "0", "1">> }

\* setTimeout(() => {...}, 500) of findXmasSundays; startText and endText
\* are the input values the closure's startYear and endYear were parsed from
SearchTimer(id, startYear, endYear, val) ==
    [delay |-> SearchDelay, kind |-> "search", id |-> id,
     startYear |-> startYear, endYear |-> endYear, year |-> 0,
     startText |-> val["startYear"], endText |-> val["endYear"]]

\* setTimeout(() => {...}, index * 50) of displayResults, index from 0
YearTimer(index, y) ==
    [delay |-> index * YearStep, kind |-> "year", id |-> 0,
     startYear |-> 0, endYear |-> 0, year |-> y,
     startText |-> Empty, endText |-> Empty]

\* what findXmasSundays reads and writes
Ui ==
    [loadingDisplay |-> loadingDisplay, resultsDisplay |-> resultsDisplay,
     lastAlert |-> lastAlert, timers |-> timers, latest |-> latest,
     cleared |-> cleared]

\* findXmasSundays() on the input values val
FindXmasSundays(ui, val) ==
    LET startYear == ParseInt(val["startYear"])
        endYear == ParseInt(val["endYear"])
    IN IF Falsy(startYear) \/ Falsy(endYear)
         THEN [ui EXCEPT
                 !.lastAlert = "Please enter both start and end years!"]
       ELSE IF startYear.n > endYear.n
         THEN [ui EXCEPT
                 !.lastAlert =
                   "Start year must be less than or equal to end year!"]
       ELSE IF startYear.n < YearLo \/ endYear.n > YearHi
         THEN [ui EXCEPT
                 !.lastAlert = "Please enter years between 1900 and 3000!"]
       ELSE [ui EXCEPT
               !.loadingDisplay = "block",
               !.resultsDisplay = "none",
               !.timers = Append(@, SearchTimer(ui.latest.id + 1,
                                                startYear.n, endYear.n, val)),
               !.latest = [id |-> ui.latest.id + 1, startYear |-> startYear.n,
                           endYear |-> endYear.n],
               !.cleared = FALSE]

\* findXmasSundays() called k times in a row
RECURSIVE Times(_, _, _)
Times(k, ui, val) ==
    IF k = 0 THEN ui ELSE Times(k - 1, FindXmasSundays(ui, val), val)

\* a click or a key press has run findXmasSundays; it counts as a search
\* when at least one call passed the validation
SetUi(ui) ==
    /\ ui.latest.id > latest.id => started < MaxSearches
    /\ started' = IF ui.latest.id > latest.id THEN started + 1 ELSE started
    /\ loadingDisplay' = ui.loadingDisplay
    /\ resultsDisplay' = ui.resultsDisplay
    /\ lastAlert' = ui.lastAlert
    /\ timers' = ui.timers
    /\ latest' = ui.latest
    /\ cleared' = ui.cleared

PageSpecInit ==
    /\ NoFindCall
    /\ tz = 0
    /\ clockYear = MinClockYear
    /\ PageInit
    /\ lastStats = NoStatsCall

\* the user edits an input: the input listeners run validateInputs
TypeValue ==
    \E f \in Fields,
       text \in TypedTexts("startYear") \cup TypedTexts("endYear") :
      /\ text \in TypedTexts(f)
      /\ text # value[f]
      /\ value' = [value EXCEPT ![f] = text]
      /\ borderColor' = ValidateInputs(value')
      /\ UNCHANGED <<findVars, clockYear, loadingDisplay, resultsDisplay,
                     yearsGrid, statText, snowflakes, listeners, lastAlert,
                     timers, currentYear, lastStats, histVars>>

\* the Find button: findXmasSundays()
ClickFind ==
    /\ SetUi(FindXmasSundays(Ui, value))
    /\ UNCHANGED <<findVars, clockYear, value, borderColor, yearsGrid,
                   statText, snowflakes, listeners, currentYear, lastStats,
                   lastFind, statCalls>>

\* Enter in an input: every keypress listener registered on it calls
\* findXmasSundays()
PressEnter ==
    \E f \in Fields :
      /\ SetUi(Times(listeners[f].keypress, Ui, value))
      /\ UNCHANGED <<findVars, clockYear, value, borderColor, yearsGrid,
                     statText, snowflakes, listeners, currentYear, lastStats,
                     lastFind, statCalls>>

\* clearResults()
ClearResults ==
    /\ resultsDisplay' = "none"
    /\ value' = [f \in Fields |-> Empty]
    /\ cleared' = TRUE
    /\ UNCHANGED <<findVars, clockYear, borderColor, loadingDisplay,
                   yearsGrid, statText, snowflakes, listeners, lastAlert,
                   timers, currentYear, lastStats, started, latest,
                   lastFind, statCalls>>

\* the timers that are due, and the one that runs next
Due == {i \in 1..Len(timers) : timers[i].delay = 0}
NextDue == CHOOSE i \in Due : \A j \in Due : i <= j
Without(list, i) == SubSeq(list, 1, i - 1) \o SubSeq(list, i + 1, Len(list))

\* the delay of the timer that is due first
RECURSIVE MinDelay(_)
MinDelay(list) ==
    IF Len(list) = 1 THEN list[1].delay
    ELSE LET m == MinDelay(Tail(list))
         IN IF list[1].delay <= m THEN list[1].delay ELSE m

\* no timer is due: time passes until the first one is
Tick ==
    /\ timers # <<>>
    /\ Due = {}
    /\ timers' = [i \in 1..Len(timers) |->
                    [timers[i] EXCEPT !.delay = @ - MinDelay(timers)]]
    /\ UNCHANGED <<findVars, clockYear, value, borderColor, loadingDisplay,
                   resultsDisplay, yearsGrid, statText, snowflakes, listeners,
                   lastAlert, currentYear, lastStats, histVars>>

\* displayResults(years, startYear, endYear), called by the timer t
DisplayResults(years, startYear, endYear, t) ==
    /\ yearsGrid' = <<>>
    /\ timers' = Without(timers, t)
                   \o [j \in 1..Len(years) |-> YearTimer(j - 1, years[j])]
    /\ NewFinder
    /\ lastStats' = StatsCall(years, startYear, endYear, currentYear')
    /\ statText' = [resultsCount |-> Num(Len(years)),
                    totalYears |-> Num(lastStats'.result.total),
                    frequency |-> lastStats'.result.frequency,
                    nextSunday |-> lastStats'.result.next,
                    gap |-> lastStats'.result.gap]
    /\ resultsDisplay' = "block"
    /\ statCalls' = statCalls \cup
                      {[years |-> years, startYear |-> startYear,
                        endYear |-> endYear,
                        next |-> lastStats'.result.next]}

\* the callback of findXmasSundays' timer: findXmasSunday, then
\* displayResults(years, startYear, endYear)
FireSearchTimer ==
    /\ Due # {}
    /\ timers[NextDue].kind = "search"
    /\ lastFind' = [called |-> TRUE,
                    startYear |-> timers[NextDue].startYear,
                    endYear |-> timers[NextDue].endYear,
                    startText |-> timers[NextDue].startText,
                    endText |-> timers[NextDue].endText]
    /\ loadingDisplay' = "none"
    /\ DisplayResults(FindXmasSunday(timers[NextDue].startYear,
                                     timers[NextDue].endYear, tz),
                      timers[NextDue].startYear, timers[NextDue].endYear,
                      NextDue)
    /\ UNCHANGED <<findVars, clockYear, value, lastAlert, started, latest,
                   cleared>>

\* the callback of one of displayResults' timers: a year item is appended
FireYearTimer ==
    /\ Due # {}
    /\ timers[NextDue].kind = "year"
    /\ yearsGrid' = Append(yearsGrid, timers[NextDue].year)
    /\ timers' = Without(timers, NextDue)
    /\ UNCHANGED <<findVars, clockYear, value, borderColor, loadingDisplay,
                   resultsDisplay, statText, snowflakes, listeners, lastAlert,
                   currentYear, lastStats, histVars>>

Next ==
    \/ TypeValue
    \/ ClickFind
    \/ PressEnter
    \/ ClearResults
    \/ Tick
    \/ FireSearchTimer
    \/ FireYearTimer
    \/ ClockTick

Spec == PageSpecInit /\ [][Next]_vars

-----------------------------------------------------------------------------
(* The Gregorian weekday rule the claims refer to, independent of the      *)
(* arithmetic above: December 25, 1900 was a Tuesday, and from one         *)
(* December 25 to the next the weekday advances by 365 days, or 366 when   *)
(* the later year is a leap year (divisible by 4 and not by 100, or        *)
(* divisible by 400). Weekdays count from Sunday = 0.                      *)

GregorianLeap(y) == (y % 4 = 0 /\ y % 100 # 0) \/ y % 400 = 0

\* leap years after YearLo, up to and including y
LeapsThrough(y) == Cardinality({k \in (YearLo + 1)..y : GregorianLeap(k)})

\* weekday of December 25 of YearLo, YearLo + 1, ..., YearHi
Dec25Weekdays ==
    <<>> \o [i \in 1..(YearHi - YearLo + 1) |->
               (2 + 365 * (i - 1) + LeapsThrough(YearLo + i - 1)) % 7]

RuleSunday(y) == Dec25Weekdays[y - YearLo + 1] = 0

Elements(list) == {list[i] : i \in 1..Len(list)}

StrictlyAscending(list) ==
    \A i \in 1..(Len(list) - 1) : list[i] < list[i + 1]

\* C1: for start <= end within 1900..3000, a year of [start, end] is in the
\* returned list if and only if its December 25 is a Sunday under the
\* Gregorian rule, whatever the host's time zone; the README's Python
\* loop returns the same list, and so does the call as the page's timer
\* callback evaluates it; findXmasSunday(2000, 2025) is
\* [2005, 2011, 2016, 2022]; 1900, 2000 and 2100 are not in any result
C1_ExactlyTheSundayYears ==
    (fpc = "returned" /\ fStart <= fEnd) =>
        /\ \A y \in fStart..fEnd :
             (y \in Elements(sundayYears)) <=> RuleSunday(y)
        /\ Elements(sundayYears) \subseteq fStart..fEnd
        /\ sundayYears = find_xmas_sunday_basic(fStart, fEnd)
        /\ sundayYears = FindXmasSunday(fStart, fEnd, tz)
        /\ (fStart = 2000 /\ fEnd = 2025 =>
              sundayYears = <<2005, 2011, 2016, 2022>>)
        /\ Elements(sundayYears) \cap {1900, 2000, 2100} = {}

C1_Witness ==
    /\ fpc = "returned"
    /\ fStart = 2000
    /\ fEnd = 2025
    /\ tz = 14
    /\ sundayYears = <<2005, 2011, 2016, 2022>>

\* C2: for start <= end, at every iteration and at the return, the list
\* built so far holds only years of [start, end] (all below the loop
\* variable) and is strictly ascending, so without duplicates
C2_InRangeAscending ==
    (fpc \in {"loop", "returned"} /\ fStart <= fEnd) =>
        /\ \A i \in 1..Len(sundayYears) :
             /\ fStart <= sundayYears[i]
             /\ sundayYears[i] <= fEnd
             /\ sundayYears[i] < year
        /\ StrictlyAscending(sundayYears)

C2_Witness ==
    /\ fpc = "loop"
    /\ year <= fEnd
    /\ Len(sundayYears) >= 3

\* C3: for start > end, findXmasSunday fails with an InvalidRangeError
\* instead of returning a list
C3_InvertedRangeThrows ==
    (fStart > fEnd /\ fpc # "loop") => fpc = "threw"

\* C5: for a valid range and an empty result list, calculateStatistics
\* returns total 0, frequency "0.0", the average gap "-" and the next
\* year "None in range" (no NaN, nothing left undefined)
C5_EmptyListStatistics ==
    (lastStats.called /\ lastStats.years = <<>>) =>
        /\ lastStats.startYear <= lastStats.endYear
        /\ lastStats.result.total = 0
        /\ lastStats.result.frequency = Fixed(0)
        /\ lastStats.result.gap = Str("-")
        /\ lastStats.result.next = Str("None in range")

C5_Witness ==
    /\ lastStats.called
    /\ lastStats.years = <<>>
    /\ lastStats.startYear < lastStats.endYear
    /\ lastStats.result.frequency = Fixed(0)

\* the tenths of x = num / den rounded to one decimal place: the integer
\* n with |10 x - n| <= 1/2, the larger one when two qualify
IsRoundedTenths(n, num, den) ==
    /\ 2 * (10 * num - n * den) <= den
    /\ 2 * (n * den - 10 * num) <= den
    /\ 2 * ((n + 1) * den - 10 * num) > den

\* C7: for an ascending list, the gaps are years[i+1] - years[i] in order
\* (count - 1 of them, each positive); the average gap is their mean
\* rounded to one decimal place, which is (last - first) / (count - 1)
\* rounded; with fewer than two years it is "-"
C7_GapsAndAverage ==
    lastStats.called =>
        LET years == lastStats.years
            gaps == lastStats.gaps
            count == Len(years)
            avg == lastStats.result.gap
        IN /\ StrictlyAscending(years)
           /\ count < 2 => (gaps = <<>> /\ avg = Str("-"))
           /\ count >= 2 =>
                /\ Len(gaps) = count - 1
                /\ \A i \in 1..(count - 1) :
                     /\ gaps[i] = years[i + 1] - years[i]
                     /\ gaps[i] > 0
                /\ avg.t = "fixed"
                /\ IsRoundedTenths(avg.n, years[count] - years[1], count - 1)

\* four gaps averaging 1.25, which prints as "1.3"
C7_Witness ==
    /\ lastStats.called
    /\ Len(lastStats.years) = 5
    /\ lastStats.gaps = <<1, 1, 1, 2>>
    /\ lastStats.result.gap = Fixed(13)

\* the decimal numeral of n >= 0, as String(n) writes it
RECURSIVE ToText(_)
ToText(n) ==
    IF n < 10 THEN <<Digits[n + 1]>>
    ELSE Append(ToText(n \div 10), Digits[(n % 10) + 1])

\* C4: the page never corrects an entered range silently: findXmasSunday
\* is only ever invoked with the exact entered values, and with
\* 1900 <= start <= end <= 3000
C4_OnlyExactEnteredRanges ==
    lastFind.called =>
        /\ ToText(lastFind.startYear) = lastFind.startText
        /\ ToText(lastFind.endYear) = lastFind.endText
        /\ YearLo <= lastFind.startYear
        /\ lastFind.startYear <= lastFind.endYear
        /\ lastFind.endYear <= YearHi

\* the part of C4 the code keeps: every invocation has
\* 1900 <= start <= end <= 3000, with start and end what parseInt made of
\* the entered texts
RangeCheckedBeforeFind ==
    lastFind.called =>
        /\ Num(lastFind.startYear) = ParseInt(lastFind.startText)
        /\ Num(lastFind.endYear) = ParseInt(lastFind.endText)
        /\ YearLo <= lastFind.startYear
        /\ lastFind.startYear <= lastFind.endYear
        /\ lastFind.endYear <= YearHi

\* ... and a rejected call only shows an alert: a step that starts no
\* search leaves the timers and, unless it is clearResults or a timer's
\* callback, the loading and results displays as they were
RejectedCallChangesNothing ==
    [][(latest' = latest /\ lastAlert' # lastAlert) =>
          /\ timers' = timers
          /\ loadingDisplay' = loadingDisplay
          /\ resultsDisplay' = resultsDisplay]_vars

\* C6: 'next' depends on the reference year only through what the caller
\* supplies: two calculateStatistics calls with equal arguments return
\* equal 'next' values
C6_EqualArgumentsEqualNext ==
    \A a \in statCalls, b \in statCalls :
        (/\ a.years = b.years
         /\ a.startYear = b.startYear
         /\ a.endYear = b.endYear) => a.next = b.next

\* the part of C6 the code keeps, relative to the finder's own currentYear:
\* 'next' is the smallest year of the list that is >= currentYear, and
\* "None in range" exactly when there is none
NextIsFirstFromCurrentYear ==
    lastStats.called =>
        LET later == {y \in Elements(lastStats.years) :
                        y >= lastStats.thisYear}
        IN IF later = {}
             THEN lastStats.result.next = Str("None in range")
             ELSE /\ lastStats.result.next.t = "number"
                  /\ lastStats.result.next.n \in later
                  /\ \A y \in later : lastStats.result.next.n <= y

\* C8: obtaining the statistics needs no global initialization: after any
\* number of searches the snow container holds as many snowflakes, and the
\* two inputs as many input and keypress listeners, as right after the
\* page's initialization
C8_NoGlobalInitialization ==
    /\ snowflakes = SnowPerInit
    /\ \A f \in Fields : listeners[f] = [input |-> 1, keypress |-> 1]

\* C9: once all pending timers have fired, the years grid holds exactly
\* the years of the most recently started search, each once and ascending
C9_GridShowsLatestSearch ==
    (timers = <<>> /\ latest.id > 0) =>
        yearsGrid = FindXmasSunday(latest.startYear, latest.endYear, tz)

\* C10: after clearResults, and until the user starts a new search, the
\* results section stays hidden and the years grid gets no further item
C10_ClearedStaysCleared ==
    [][(cleared /\ cleared') =>
          /\ resultsDisplay' = "none"
          /\ yearsGrid' = yearsGrid]_vars

====
